---- MODULE Spec2Model ----
(***************************************************************************)
(* Model of the video-normalization and transition-compositing core of     *)
(* ComfyUI_MovisAdapter: video_types.py (VideoWrapper,                     *)
(* normalize_video_params, resize_to_target, set_fps_if_needed),           *)
(* transitions.py (apply_* and apply_transition) and concatenate_node.py   *)
(* (VideoConcatenate.concatenate).                                         *)
(*                                                                         *)
(* Times are integers (one unit = one second).  A clip is a record; the    *)
(* object identity of a clip is its whole record: the input object it was  *)
(* cut from (src), the interval cut (t0, t1) and the chain of              *)
(* transformations applied to it (fx).  Every library transformation       *)
(* returns a new clip, i.e. a record that differs from its argument.       *)
(*                                                                         *)
(* The clip library (moviepy) is outside the repository; its operations    *)
(* are modelled by their documented contract: concatenate_videoclips puts  *)
(* `padding` seconds between each two consecutive clips, subclip counts a  *)
(* negative time from the end of the clip and rejects a start beyond the   *)
(* end, fades and positions keep the duration, the size and the rate.      *)
(***************************************************************************)
EXTENDS Integers, Sequences, FiniteSets, TLC

\* ------------------------------------------------------------------ bounds
MaxClips == 3    \* longest input sequence
MaxDur == 3      \* longest input clip, seconds
MaxTrans == 2    \* longest transition duration, seconds
MaxOps == 2      \* longest chain of per-clip conversions a caller builds

\* target_fps=None, the default of normalize_video_params
NoOverride == -1

\* (width, height, fps) of the input clips
Profiles ==
  { [w |-> 640, h |-> 360, fps |-> 24],
    [w |-> 320, h |-> 480, fps |-> 30] }

FpsValues == {p.fps : p \in Profiles}
SizeValues == {<<p.w, q.h>> : p \in Profiles, q \in Profiles}

Max(a, b) == IF a >= b THEN a ELSE b

\* ------------------------------------------------------------------- clips
\* kind: "clip" a frame source, "composite" a CompositeVideoClip, "concat" the
\* result of concatenate_videoclips, "none" Python's None, "error" a library
\* call that raised.
MkClip(kind, src, t0, t1, dur, fps, w, h, fx, segs, pad) ==
  [kind |-> kind, src |-> src, t0 |-> t0, t1 |-> t1, dur |-> dur, fps |-> fps,
   w |-> w, h |-> h, fx |-> fx, segs |-> segs, pad |-> pad]

NoneClip == MkClip("none", 0, 0, 0, 0, 0, 0, 0, <<>>, <<>>, 0)

ErrorClip == MkClip("error", 0, 0, 0, 0, 0, 0, 0, <<>>, <<>>, 0)

IsError(c) == c.kind = "error"

AnyError(clips) == \E i \in 1..Len(clips) : IsError(clips[i])

\* clip.size
SizeOf(c) == <<c.w, c.h>>

\* one transformation in the history of a clip
Fx(op, arg) == [op |-> op, arg |-> arg]

WithFx(c, op, arg) == IF IsError(c) THEN c ELSE [c EXCEPT !.fx = Append(@, Fx(op, arg))]

\* clip.resize(newsize=...)
resize(c, size) ==
  IF IsError(c) THEN c
  ELSE [c EXCEPT !.w = size[1], !.h = size[2], !.fx = Append(@, Fx("resize", 0))]

\* clip.set_fps(fps)
set_fps(c, fps) ==
  IF IsError(c) THEN c
  ELSE [c EXCEPT !.fps = fps, !.fx = Append(@, Fx("set_fps", fps))]

crossfadein(c, d) == WithFx(c, "crossfadein", d)

crossfadeout(c, d) == WithFx(c, "crossfadeout", d)

\* clip.fadein(d, initial_color=...), clip.fadeout(d, final_color=...)
fadein(c, d, colour) == WithFx(c, "fadein_" \o colour, d)

fadeout(c, d, colour) == WithFx(c, "fadeout_" \o colour, d)

\* clip.set_position(lambda t: ...): dir names the position function, w is the
\* value its free variable w has when the library calls it
set_position(c, dir, w) == WithFx(c, "set_position_" \o dir, w)

\* clip.set_duration(d)
set_duration(c, d) == IF IsError(c) THEN c ELSE [c EXCEPT !.dur = d]

\* clip.subclip(t_start, t_end)
subclip(c, tStart, tEnd) ==
  LET s == IF tStart < 0 THEN c.dur + tStart ELSE tStart
      e == IF tEnd < 0 THEN c.dur + tEnd ELSE tEnd
  IN  IF IsError(c) \/ s > c.dur THEN ErrorClip
      ELSE [c EXCEPT !.t0 = c.t0 + s, !.t1 = c.t0 + e, !.dur = e - s,
                     !.fx = @ \o <<Fx("subclip", tStart), Fx("subclip_end", tEnd)>>]

RECURSIVE SumDur(_)
SumDur(clips) == IF clips = <<>> THEN 0 ELSE Head(clips).dur + SumDur(Tail(clips))

RECURSIVE MaxOf(_, _)
\* max(f(c) for c in clips), f given as the field name
MaxOf(clips, field) ==
  IF Len(clips) = 1 THEN Head(clips)[field]
  ELSE Max(Head(clips)[field], MaxOf(Tail(clips), field))

\* CompositeVideoClip(clips, size=size)
CompositeVideoClip(clips, size) ==
  IF AnyError(clips) THEN ErrorClip
  ELSE MkClip("composite", 0, 0, 0, MaxOf(clips, "dur"), MaxOf(clips, "fps"),
              size[1], size[2], <<>>, clips, 0)

\* concatenate_videoclips(clips, padding=padding): max() of an empty list raises
\* ValueError; the clips start at the running sum of the durations plus
\* k * padding, never before 0, and the result ends where the last clip ends.
concatenate_videoclips(clips, padding) ==
  IF clips = <<>> \/ AnyError(clips) THEN ErrorClip
  ELSE MkClip("concat", 0, 0, 0,
              Max(0, SumDur(clips) + Len(clips) * padding) - padding,
              MaxOf(clips, "fps"), MaxOf(clips, "w"), MaxOf(clips, "h"),
              <<>>, clips, padding)

\* the time at which segment k of a concatenated timeline starts
StartTime(timeline, k) ==
  Max(0, SumDur(SubSeq(timeline.segs, 1, k - 1)) + (k - 1) * timeline.pad)

\* ---------------------------------------------------------- video_types.py
\* VideoWrapper(clip): wid is the identity of the wrapper object, 0 for one
\* built by a node, i for the caller's i-th input
VideoWrapper(wid, clip) == [wid |-> wid, clip |-> clip]

\* isinstance(clip, VideoClip)
IsVideoClip(c) == c.kind \in {"clip", "composite", "concat"}

\* VideoWrapper.__init__: a wrapper for a VideoClip, TypeError for anything else
VideoWrapper_init(clip) ==
  IF ~IsVideoClip(clip)
  THEN [status |-> "TypeError", wrapper |-> VideoWrapper(0, NoneClip)]
  ELSE [status |-> "returned", wrapper |-> VideoWrapper(0, clip)]

\* the properties duration, fps, size, w and h of a wrapper
VideoWrapper_properties(wrapper) ==
  <<wrapper.clip.dur, wrapper.clip.fps, SizeOf(wrapper.clip), wrapper.clip.w,
    wrapper.clip.h>>

ClipsOf(videos) == [i \in 1..Len(videos) |-> videos[i].clip]

NoTarget == [fps |-> 0, size |-> <<0, 0>>]

\* variants of normalize_video_params with a plausible slip each: the first
\* clip's size as target, the last clip's rate as default, no empty check
normalize_first_size(clips, target_fps) ==
  IF clips = <<>>
  THEN [status |-> "ValueError", fps |-> NoTarget.fps, size |-> NoTarget.size]
  ELSE [status |-> "returned",
        fps |-> IF target_fps # NoOverride THEN target_fps ELSE clips[1].clip.fps,
        size |-> SizeOf(clips[1].clip)]

normalize_last_fps(clips, target_fps) ==
  IF clips = <<>>
  THEN [status |-> "ValueError", fps |-> NoTarget.fps, size |-> NoTarget.size]
  ELSE [status |-> "returned",
        fps |-> IF target_fps # NoOverride THEN target_fps
                ELSE clips[Len(clips)].clip.fps,
        size |-> <<MaxOf(ClipsOf(clips), "w"), MaxOf(ClipsOf(clips), "h")>>]

normalize_unchecked(clips, target_fps) ==
  IF clips = <<>>
  THEN [status |-> "returned",
        fps |-> IF target_fps # NoOverride THEN target_fps ELSE NoTarget.fps,
        size |-> NoTarget.size]
  ELSE [status |-> "returned",
        fps |-> IF target_fps # NoOverride THEN target_fps ELSE clips[1].clip.fps,
        size |-> <<MaxOf(ClipsOf(clips), "w"), MaxOf(ClipsOf(clips), "h")>>]

\* normalize_video_params(clips, target_fps): [status, fps, size].  clips are
\* VideoWrapper objects, whose fps, w and h properties read the wrapped clip.
normalize_video_params(clips, target_fps) ==
  IF clips = <<>>
  THEN [status |-> "ValueError", fps |-> NoTarget.fps, size |-> NoTarget.size]
  ELSE [status |-> "returned",
        fps |-> IF target_fps # NoOverride THEN target_fps ELSE clips[1].clip.fps,
        size |-> <<MaxOf(ClipsOf(clips), "w"), MaxOf(ClipsOf(clips), "h")>>]

\* resize_to_target without its "size matches" shortcut
resize_always(clip, target_size) == resize(clip, target_size)

resize_to_target(clip, target_size) ==
  IF SizeOf(clip) = target_size THEN clip ELSE resize(clip, target_size)

set_fps_if_needed(clip, target_fps) ==
  IF clip.fps = target_fps THEN clip ELSE set_fps(clip, target_fps)

\* apply_crossfade that forgets the negative padding
apply_crossfade_unpadded(clips, duration) ==
  IF Len(clips) <= 1
  THEN IF clips # <<>> THEN clips[1] ELSE NoneClip
  ELSE concatenate_videoclips(
         [i \in 1..Len(clips) |->
            IF i = 1 THEN crossfadeout(clips[i], duration)
            ELSE IF i = Len(clips) THEN crossfadein(clips[i], duration)
            ELSE crossfadeout(crossfadein(clips[i], duration), duration)],
         0)

\* a crossfade that gives every clip, the first and the last too, both fades
apply_crossfade_both_ends(clips, duration) ==
  IF Len(clips) <= 1
  THEN IF clips # <<>> THEN clips[1] ELSE NoneClip
  ELSE concatenate_videoclips(
         [i \in 1..Len(clips) |->
            crossfadeout(crossfadein(clips[i], duration), duration)],
         -duration)

\* ---------------------------------------------------------- transitions.py
apply_crossfade(clips, duration) ==
  IF Len(clips) <= 1
  THEN IF clips # <<>> THEN clips[1] ELSE NoneClip
  ELSE concatenate_videoclips(
         [i \in 1..Len(clips) |->
            IF i = 1 THEN crossfadeout(clips[i], duration)
            ELSE IF i = Len(clips) THEN crossfadein(clips[i], duration)
            ELSE crossfadeout(crossfadein(clips[i], duration), duration)],
         -duration)

\* the fade loop keeping the fade-out on the last clip too
FadeClips_last_fades_out(clips, duration, colour) ==
  [i \in 1..Len(clips) |->
     LET kept == fadeout(clips[i], duration, colour)
     IN  IF i > 1 THEN fadein(kept, duration, colour) ELSE kept]

\* the loop body shared by apply_fade_black and apply_fade_white
FadeClips(clips, duration, colour) ==
  [i \in 1..Len(clips) |->
     LET kept == IF i < Len(clips) THEN fadeout(clips[i], duration, colour)
                 ELSE clips[i]
     IN  IF i > 1 THEN fadein(kept, duration, colour) ELSE kept]

apply_fade_black(clips, duration) ==
  concatenate_videoclips(FadeClips(clips, duration, "black"), 0)

apply_fade_white(clips, duration) ==
  concatenate_videoclips(FadeClips(clips, duration, "white"), 0)

\* w as the position functions read it. Each lambda refers to the loop's
\* variable w, not to its value at the junction, and the library calls the
\* lambdas when it renders frames, after the loop has ended: w is then the
\* width of the last junction's outgoing clip.
RenderWidth(clips) == clips[Len(clips) - 1].w

\* the position lambdas at time t, as <<x * duration, y>> so that x stays whole
PositionAt(op, w, t, duration) ==
  CASE op = "set_position_left_out"  -> <<-w * t, 0>>
    [] op = "set_position_left_in"   -> <<w * duration - w * t, 0>>
    [] op = "set_position_right_out" -> <<w * t, 0>>
    [] op = "set_position_right_in"  -> <<-w * duration + w * t, 0>>

\* a slide segment composited on a canvas wide enough for both clips side by
\* side
SlideTransition_wide(clips, duration, i, dir) ==
  LET clip == clips[i]
      outgoing == set_position(subclip(clip, clip.dur - duration, clip.dur),
                               dir \o "_out", RenderWidth(clips))
      incoming == set_position(subclip(clips[i + 1], 0, duration), dir \o "_in",
                               RenderWidth(clips))
  IN  set_duration(CompositeVideoClip(<<outgoing, incoming>>,
                                      <<2 * clip.w, clip.h>>),
                   duration)

\* the transition segment of junction (i, i+1) of a slide; dir is "left" or
\* "right"
SlideTransition(clips, duration, i, dir) ==
  LET clip == clips[i]
      outgoing == set_position(subclip(clip, clip.dur - duration, clip.dur),
                               dir \o "_out", RenderWidth(clips))
      incoming == set_position(subclip(clips[i + 1], 0, duration), dir \o "_in",
                               RenderWidth(clips))
  IN  set_duration(CompositeVideoClip(<<outgoing, incoming>>, SizeOf(clip)),
                   duration)

\* the slide loop cutting the leading transition off every clip but the first
SlideAppends_trimmed(clips, duration, i, dir) ==
  LET clip == clips[i]
      n == Len(clips)
  IN  (IF i < n
       THEN (IF clip.dur > duration
             THEN <<subclip(clip, IF i > 1 THEN duration ELSE 0,
                            clip.dur - duration)>>
             ELSE <<>>)
            \o <<SlideTransition(clips, duration, i, dir)>>
       ELSE <<>>)
      \o (IF i = n /\ clip.dur > duration
          THEN <<subclip(clip, duration, clip.dur)>> ELSE <<>>)

\* what iteration i of the slide loop appends to result_clips
SlideAppends(clips, duration, i, dir) ==
  LET clip == clips[i]
      n == Len(clips)
  IN  (IF i < n
       THEN (IF clip.dur > duration
             THEN <<subclip(clip, 0, clip.dur - duration)>> ELSE <<>>)
            \o <<SlideTransition(clips, duration, i, dir)>>
       ELSE <<>>)
      \o (IF i = n /\ clip.dur > duration
          THEN <<subclip(clip, duration, clip.dur)>> ELSE <<>>)

RECURSIVE SlideResultClips(_, _, _, _)
\* result_clips after iterations i..n of the slide loop
SlideResultClips(clips, duration, i, dir) ==
  IF i > Len(clips) THEN <<>>
  ELSE SlideAppends(clips, duration, i, dir)
       \o SlideResultClips(clips, duration, i + 1, dir)

apply_slide_left(clips, duration) ==
  IF Len(clips) <= 1
  THEN IF clips # <<>> THEN clips[1] ELSE NoneClip
  ELSE concatenate_videoclips(SlideResultClips(clips, duration, 1, "left"), 0)

apply_slide_right(clips, duration) ==
  IF Len(clips) <= 1
  THEN IF clips # <<>> THEN clips[1] ELSE NoneClip
  ELSE concatenate_videoclips(SlideResultClips(clips, duration, 1, "right"), 0)

\* what iteration i of the zoom loop appends to result_clips
ZoomAppends(clips, duration, i) ==
  LET clip == clips[i]
  IN  IF i < Len(clips)
      THEN (IF clip.dur > duration
            THEN <<subclip(clip, 0, clip.dur - duration)>> ELSE <<>>)
           \o <<crossfadeout(subclip(clip, Max(0, clip.dur - duration), clip.dur),
                             duration)>>
           \o <<crossfadein(clips[i + 1], duration)>>
      ELSE <<clip>>

RECURSIVE ZoomResultClips(_, _, _)
ZoomResultClips(clips, duration, i) ==
  IF i > Len(clips) THEN <<>>
  ELSE ZoomAppends(clips, duration, i) \o ZoomResultClips(clips, duration, i + 1)

apply_zoom_in(clips, duration) ==
  concatenate_videoclips(ZoomResultClips(clips, duration, 1), -duration)

apply_zoom_out(clips, duration) ==
  concatenate_videoclips(ZoomResultClips(clips, duration, 1), -duration)

\* the keys of TRANSITION_FUNCTIONS
TransitionKinds ==
  {"none", "crossfade", "fade_black", "fade_white", "slide_left", "slide_right",
   "zoom_in", "zoom_out"}

\* TRANSITION_FUNCTIONS[transition_type](clips, duration)
TRANSITION_FUNCTIONS(transition_type, clips, duration) ==
  CASE transition_type = "none" -> concatenate_videoclips(clips, 0)
    [] transition_type = "crossfade" -> apply_crossfade(clips, duration)
    [] transition_type = "fade_black" -> apply_fade_black(clips, duration)
    [] transition_type = "fade_white" -> apply_fade_white(clips, duration)
    [] transition_type = "slide_left" -> apply_slide_left(clips, duration)
    [] transition_type = "slide_right" -> apply_slide_right(clips, duration)
    [] transition_type = "zoom_in" -> apply_zoom_in(clips, duration)
    [] transition_type = "zoom_out" -> apply_zoom_out(clips, duration)

\* the outcome of a call: status is "returned" or the exception raised, val the
\* clip returned, ran the functions entered, in order
Outcome(status, val, ran) == [status |-> status, val |-> val, ran |-> ran]

\* a library call that raised ends the caller with the library's ValueError
Finish(val, ran) ==
  IF IsError(val) THEN Outcome("ValueError", NoneClip, ran)
  ELSE Outcome("returned", val, ran)

\* apply_transition that falls back to plain concatenation for a name it does
\* not know
apply_transition_fallback(clips, transition_type, duration) ==
  IF transition_type \notin TransitionKinds
  THEN Finish(concatenate_videoclips(clips, 0), <<"apply_transition", "none">>)
  ELSE Finish(TRANSITION_FUNCTIONS(transition_type, clips, duration),
              <<"apply_transition", transition_type>>)

apply_transition(clips, transition_type, duration) ==
  IF transition_type \notin TransitionKinds
  THEN Outcome("ValueError", NoneClip, <<"apply_transition">>)
  ELSE Finish(TRANSITION_FUNCTIONS(transition_type, clips, duration),
              <<"apply_transition", transition_type>>)

NormalizedClips(videos, target_fps, target_size) ==
  [i \in 1..Len(videos) |->
     resize_to_target(set_fps_if_needed(videos[i].clip, target_fps), target_size)]

\* the tail of VideoConcatenate.concatenate, after the two early exits;
\* simple says whether plain concatenation was chosen
ConcatenateMany(videos, simple, transition_type, transition_duration) ==
  LET target == normalize_video_params(videos, NoOverride)
      normalized_clips == NormalizedClips(videos, target.fps, target.size)
      res == IF simple
             THEN Finish(concatenate_videoclips(normalized_clips, 0),
                         <<"concatenate_videoclips">>)
             ELSE apply_transition(normalized_clips, transition_type,
                                   transition_duration)
      ran == <<"normalize_video_params">> \o res.ran
  IN  IF res.status # "returned"
      THEN [status |-> res.status, wrapper |-> VideoWrapper(0, NoneClip),
            ran |-> ran]
      ELSE IF res.val.kind = "none"
      THEN [status |-> "TypeError", wrapper |-> VideoWrapper(0, NoneClip),
            ran |-> ran]
      ELSE [status |-> "returned", wrapper |-> VideoWrapper(0, res.val),
            ran |-> ran]

\* concatenate that takes the plain path only when both the mode and the
\* transition type ask for it
concatenate_both(videos, mode, transition_type, transition_duration) ==
  IF videos = <<>>
  THEN [status |-> "ValueError", wrapper |-> VideoWrapper(0, NoneClip), ran |-> <<>>]
  ELSE IF Len(videos) = 1
  THEN [status |-> "returned", wrapper |-> videos[1], ran |-> <<>>]
  ELSE ConcatenateMany(videos, mode = "simple" /\ transition_type = "none",
                       transition_type, transition_duration)

\* concatenate without the single-video shortcut
concatenate_no_shortcut(videos, mode, transition_type, transition_duration) ==
  IF videos = <<>>
  THEN [status |-> "ValueError", wrapper |-> VideoWrapper(0, NoneClip), ran |-> <<>>]
  ELSE ConcatenateMany(videos, mode = "simple" \/ transition_type = "none",
                       transition_type, transition_duration)

\* VideoConcatenate.concatenate(videos, mode, transition_type,
\* transition_duration): [status, wrapper, ran]
concatenate(videos, mode, transition_type, transition_duration) ==
  IF videos = <<>>
  THEN [status |-> "ValueError", wrapper |-> VideoWrapper(0, NoneClip), ran |-> <<>>]
  ELSE IF Len(videos) = 1
  THEN [status |-> "returned", wrapper |-> videos[1], ran |-> <<>>]
  ELSE ConcatenateMany(videos, mode = "simple" \/ transition_type = "none",
                       transition_type, transition_duration)

\* ---------------------------------------------------------------- effects.py
\* clip.image_transform(f): a new clip showing f(frame), same timing and size
image_transform(c, op, arg) == WithFx(c, op, arg)

\* clip.speedx(factor): the clip played factor times as fast (whole seconds)
speedx(c, factor) ==
  IF IsError(c) THEN c
  ELSE [c EXCEPT !.dur = c.dur \div factor, !.fx = Append(@, Fx("speedx", factor))]

\* a keyword argument the called function does not declare: TypeError
Unexpected(kwargs, declared) == DOMAIN kwargs \ declared # {}

TypeErrorOutcome == Outcome("TypeError", NoneClip, <<>>)

apply_blur(clip, kwargs) ==
  IF Unexpected(kwargs, {"radius", "intensity"}) THEN TypeErrorOutcome
  ELSE Finish(image_transform(clip, "blur", 0), <<"blur">>)

apply_sharpen(clip, kwargs) ==
  IF Unexpected(kwargs, {"intensity"}) THEN TypeErrorOutcome
  ELSE Finish(image_transform(clip, "sharpen", 0), <<"sharpen">>)

\* MirrorX(...), MirrorY(...): moviepy.video.fx effect objects; the argument
\* becomes the effect's first field and no clip is made
EffectObject == MkClip("Effect", 0, 0, 0, 0, 0, 0, 0, <<>>, <<>>, 0)

apply_mirror_x(clip) == Outcome("returned", EffectObject, <<"mirror_x">>)

apply_mirror_y(clip) == Outcome("returned", EffectObject, <<"mirror_y">>)

apply_speed_up(clip, kwargs) ==
  IF Unexpected(kwargs, {"speed_factor"}) THEN TypeErrorOutcome
  ELSE Finish(speedx(clip, kwargs.speed_factor), <<"speed_up">>)

apply_slow_down(clip, kwargs) ==
  IF Unexpected(kwargs, {"speed_factor"}) THEN TypeErrorOutcome
  ELSE Finish(speedx(clip, kwargs.speed_factor), <<"slow_down">>)

apply_noise(clip, kwargs) ==
  IF Unexpected(kwargs, {"noise_level"}) THEN TypeErrorOutcome
  ELSE Finish(image_transform(clip, "noise", 0), <<"noise">>)

apply_vignette(clip, kwargs) ==
  IF Unexpected(kwargs, {"intensity"}) THEN TypeErrorOutcome
  ELSE Finish(image_transform(clip, "vignette", 0), <<"vignette">>)

EffectKinds ==
  {"none", "blur", "sharpen", "mirror_x", "mirror_y", "speed_up", "slow_down",
   "noise", "vignette"}

EFFECT_FUNCTIONS(effect_type, clip, kwargs) ==
  CASE effect_type = "none"      -> Outcome("returned", clip, <<"none">>)
    [] effect_type = "blur"      -> apply_blur(clip, kwargs)
    [] effect_type = "sharpen"   -> apply_sharpen(clip, kwargs)
    [] effect_type = "mirror_x"  -> apply_mirror_x(clip)
    [] effect_type = "mirror_y"  -> apply_mirror_y(clip)
    [] effect_type = "speed_up"  -> apply_speed_up(clip, kwargs)
    [] effect_type = "slow_down" -> apply_slow_down(clip, kwargs)
    [] effect_type = "noise"     -> apply_noise(clip, kwargs)
    [] effect_type = "vignette"  -> apply_vignette(clip, kwargs)

apply_effect(clip, effect_type, kwargs) ==
  IF effect_type \notin EffectKinds THEN Outcome("ValueError", NoneClip, <<>>)
  ELSE EFFECT_FUNCTIONS(effect_type, clip, kwargs)

\* ----------------------------------------------------------- effects_node.py
\* effect_params as the node builds it
EffectParams(effect_type, intensity, blur_radius, speed_factor, noise_level) ==
  IF effect_type = "blur"
  THEN [intensity |-> intensity, radius |-> blur_radius]
  ELSE IF effect_type \in {"speed_up", "slow_down"}
  THEN [intensity |-> intensity, speed_factor |-> speed_factor]
  ELSE IF effect_type = "noise"
  THEN [intensity |-> intensity, noise_level |-> noise_level]
  ELSE [intensity |-> intensity]

\* the node without its early return for 'none'
VideoEffects_always_dispatch(video, effect_type, intensity, blur_radius, speed_factor, noise_level) ==
  LET res == apply_effect(video.clip, effect_type,
                          EffectParams(effect_type, intensity, blur_radius,
                                       speed_factor, noise_level))
  IN  IF res.status # "returned"
      THEN [status |-> res.status, wrapper |-> VideoWrapper(0, NoneClip),
            ran |-> res.ran]
      ELSE [status |-> VideoWrapper_init(res.val).status,
            wrapper |-> VideoWrapper_init(res.val).wrapper,
            ran |-> <<"apply_effect">> \o res.ran]

\* VideoEffects.apply_effect
VideoEffects_apply_effect(video, effect_type, intensity, blur_radius, speed_factor, noise_level) ==
  IF effect_type = "none"
  THEN [status |-> "returned", wrapper |-> video, ran |-> <<>>]
  ELSE LET res == apply_effect(video.clip, effect_type,
                               EffectParams(effect_type, intensity, blur_radius,
                                            speed_factor, noise_level))
       IN  IF res.status # "returned"
           THEN [status |-> res.status, wrapper |-> VideoWrapper(0, NoneClip),
                 ran |-> res.ran]
           ELSE [status |-> VideoWrapper_init(res.val).status,
                 wrapper |-> VideoWrapper_init(res.val).wrapper,
                 ran |-> <<"apply_effect">> \o res.ran]

\* ------------------------------------------------------- video_to_images.py
\* times are counted in ticks, TicksPerSecond to the second
TicksPerSecond == 2

Min(a, b) == IF a <= b THEN a ELSE b

\* the time of frame i, as t * TicksPerSecond * target_fps so that it stays a
\* whole number
FrameTime(i, start_time, target_fps) == start_time * target_fps + i * TicksPerSecond

\* the loop over range(num_frames): the times of the frames taken, which are
\* those before the first i whose time reaches actual_end_time (the break)
FrameLoop(num_frames, start_time, actual_end_time, target_fps) ==
  LET taken == {i \in 0..(num_frames - 1) :
                  \A j \in 0..i : FrameTime(j, start_time, target_fps)
                                    < actual_end_time * target_fps}
  IN  [k \in 1..Cardinality(taken) |-> FrameTime(k - 1, start_time, target_fps)]

\* the loop running once more than num_frames
convert_one_more(video, fps, start_time, end_time) ==
  LET clip == video.clip
      target_fps == IF fps > 0 THEN fps ELSE clip.fps
      whole == clip.dur * TicksPerSecond
      end0 == IF end_time > 0 THEN end_time ELSE whole
      start == Max(0, Min(start_time, whole))
      actual_end_time == Max(start, Min(end0, whole))
      num_frames == ((actual_end_time - start) * target_fps) \div TicksPerSecond
      frames == FrameLoop(num_frames + 1, start, actual_end_time, target_fps)
  IN  IF frames = <<>>
      THEN [status |-> "ValueError", frames |-> <<>>, shape |-> <<0, 0>>]
      ELSE [status |-> "returned", frames |-> frames, shape |-> <<clip.h, clip.w>>]

\* the end of the window taken as asked for, not clamped to the clip
convert_end_unclamped(video, fps, start_time, end_time) ==
  LET clip == video.clip
      target_fps == IF fps > 0 THEN fps ELSE clip.fps
      whole == clip.dur * TicksPerSecond
      end0 == IF end_time > 0 THEN end_time ELSE whole
      start == Max(0, Min(start_time, whole))
      actual_end_time == Max(start, end0)
      num_frames == ((actual_end_time - start) * target_fps) \div TicksPerSecond
      frames == FrameLoop(num_frames, start, actual_end_time, target_fps)
  IN  IF frames = <<>>
      THEN [status |-> "ValueError", frames |-> <<>>, shape |-> <<0, 0>>]
      ELSE [status |-> "returned", frames |-> frames, shape |-> <<clip.h, clip.w>>]

\* VideoToImages.convert_to_images; start_time and end_time in ticks
convert_to_images(video, fps, start_time, end_time) ==
  LET clip == video.clip
      target_fps == IF fps > 0 THEN fps ELSE clip.fps
      whole == clip.dur * TicksPerSecond
      end0 == IF end_time > 0 THEN end_time ELSE whole
      start == Max(0, Min(start_time, whole))
      actual_end_time == Max(start, Min(end0, whole))
      num_frames == ((actual_end_time - start) * target_fps) \div TicksPerSecond
      frames == FrameLoop(num_frames, start, actual_end_time, target_fps)
  IN  IF frames = <<>>
      THEN [status |-> "ValueError", frames |-> <<>>, shape |-> <<0, 0>>]
      ELSE [status |-> "returned", frames |-> frames, shape |-> <<clip.h, clip.w>>]

\* ------------------------------------------------------- images_to_video.py
MaxBatch == 4

RECURSIVE GCD(_, _)
GCD(a, b) == IF b = 0 THEN a ELSE GCD(b, a % b)

\* a / b, as the fraction in lowest terms
Rational(a, b) == [num |-> a \div GCD(a, b), den |-> b \div GCD(a, b)]

\* an IMAGE batch: a tensor of shape [B, H, W, C], or None
Tensor(B, H, W) == [none |-> FALSE, B |-> B, H |-> H, W |-> W, C |-> 3]

NoImages == [none |-> TRUE, B |-> 0, H |-> 0, W |-> 0, C |-> 0]

numel(images) == images.B * images.H * images.W * images.C

\* ------------------------------------------------ Python's float arithmetic
\* A float is an IEEE 754 double: sign, a significand of 53 bits written most
\* significant bit first (the first bit is 1; the empty sequence is zero), and
\* the exponent of its last bit.  Every operation rounds the exact result to
\* the nearest double, ties to the even significand.
SigBits == 53

Float(neg, sig, exp) == [neg |-> neg, sig |-> sig, exp |-> exp]

FloatZero == Float(FALSE, <<>>, 0)

RECURSIVE Pow2(_)
Pow2(n) == IF n = 0 THEN 1 ELSE 2 * Pow2(n - 1)

\* 2^n modulo b, by squaring
RECURSIVE PowMod(_, _)
PowMod(n, b) ==
  IF n = 0 THEN 1 % b
  ELSE IF n % 2 = 0 THEN LET h == PowMod(n \div 2, b) IN (h * h) % b
  ELSE (2 * PowMod(n - 1, b)) % b

\* the remainder left after n bits of r / b for a remainder r < b
QuotientRest(r, b, n) == (r * PowMod(n, b)) % b

\* the next n bits of r / b: bit j is the one long division yields from the
\* remainder left after j - 1 bits
QuotientBits(r, b, n) ==
  [j \in 1..n |-> IF 2 * QuotientRest(r, b, j - 1) >= b THEN 1 ELSE 0]

\* significand + 1; carry tells that it overflowed into one more bit
Increment(sig) ==
  LET zeros == {i \in 1..Len(sig) : sig[i] = 0}
  IN  IF zeros = {}
      THEN [sig |-> [i \in 1..Len(sig) |-> IF i = 1 THEN 1 ELSE 0], carry |-> 1]
      ELSE LET p == CHOOSE i \in zeros : \A j \in zeros : j <= i
           IN  [sig |-> [i \in 1..Len(sig) |->
                           IF i < p THEN sig[i] ELSE IF i = p THEN 1 ELSE 0],
                carry |-> 0]

\* round to nearest, ties to even: bits holds the exact result's leading bits
\* (at least SigBits of them, the first is 1), sticky tells that more nonzero
\* bits follow, exp is the exponent of the last bit of bits
RoundToDouble(neg, bits, sticky, exp) ==
  LET sig   == SubSeq(bits, 1, SigBits)
      extra == Len(bits) - SigBits
      guard == IF extra >= 1 THEN bits[SigBits + 1] ELSE 0
      rest  == sticky \/ \E i \in SigBits + 2..Len(bits) : bits[i] = 1
      up    == guard = 1 /\ (rest \/ sig[SigBits] = 1)
      inc   == Increment(sig)
  IN  IF up THEN Float(neg, inc.sig, exp + extra + inc.carry)
      ELSE Float(neg, sig, exp + extra)

\* a / b for two floats holding the whole numbers a >= 0 and b >= 1
float_div(a, b) ==
  IF a = 0 THEN FloatZero
  ELSE LET g  == CHOOSE s \in 0..b : a * Pow2(s) >= b /\ (s = 0 \/ a * Pow2(s - 1) < b)
           an == a * Pow2(g)
           h  == CHOOSE s \in 0..an : b * Pow2(s) <= an /\ b * Pow2(s + 1) > an
           bn == b * Pow2(h)
       IN  RoundToDouble(FALSE, <<1>> \o QuotientBits(an - bn, bn, SigBits),
                         QuotientRest(an - bn, bn, SigBits) # 0,
                         h - g - SigBits)

RECURSIVE BitsToNat(_)
BitsToNat(bits) ==
  IF bits = <<>> THEN 0
  ELSE 2 * BitsToNat(SubSeq(bits, 1, Len(bits) - 1)) + bits[Len(bits)]

\* the product is computed on digits of LimbBits bits
LimbBits == 13

\* the digits of sig, least significant first
Limbs(sig) ==
  LET count == (Len(sig) + LimbBits - 1) \div LimbBits
  IN  [j \in 1..count |->
         BitsToNat(SubSeq(sig, Max(1, Len(sig) - LimbBits * j + 1),
                          Len(sig) - LimbBits * (j - 1)))]

\* the digits of limbs * n + carry, least significant first
RECURSIVE LimbProduct(_, _, _)
LimbProduct(limbs, n, carry) ==
  IF limbs = <<>>
  THEN IF carry = 0 THEN <<>>
       ELSE <<carry % Pow2(LimbBits)>> \o LimbProduct(limbs, n, carry \div Pow2(LimbBits))
  ELSE LET d == Head(limbs) * n + carry
       IN  <<d % Pow2(LimbBits)>> \o LimbProduct(Tail(limbs), n, d \div Pow2(LimbBits))

\* the bits of the digits, most significant first, from the leading 1 on
LimbsToBits(limbs) ==
  LET width == LimbBits * Len(limbs)
      bits  == [i \in 1..width |->
                  LET p == width - i   \* the bit's weight 2^p
                  IN  (limbs[p \div LimbBits + 1] \div Pow2(p % LimbBits)) % 2]
      first == CHOOSE i \in 1..width : bits[i] = 1 /\ \A j \in 1..i - 1 : bits[j] = 0
  IN  SubSeq(bits, first, width)

\* the bits of sig * n, most significant first
ProductBits(sig, n) == LimbsToBits(LimbProduct(Limbs(sig), n, 0))

\* x * n for a float x and a float holding the whole number n >= 1
float_mul(x, n) ==
  IF x.sig = <<>> THEN x
  ELSE RoundToDouble(x.neg, ProductBits(x.sig, n), FALSE, x.exp)

\* -x
float_neg(x) == [x EXCEPT !.neg = ~x.neg]

\* int(x): the fraction is dropped, towards zero
float_int(x) ==
  LET whole == Len(x.sig) + x.exp
      mag   == IF x.sig = <<>> \/ whole <= 0 THEN 0
               ELSE IF x.exp >= 0 THEN BitsToNat(x.sig) * Pow2(x.exp)
               ELSE BitsToNat(SubSeq(x.sig, 1, whole))
  IN  IF x.neg THEN 0 - mag ELSE mag

\* make_frame(t): the index of the frame shown at the time t
make_frame(t, fps, batch_size) ==
  LET frame_index == float_int(float_mul(t, fps))
  IN  Max(0, Min(frame_index, batch_size - 1))

\* VideoClip(frame_function=make_frame, duration=duration): the size is that
\* of the frame at t = 0, width first
VideoClip(images, fps, duration) ==
  MkClip("clip", 0, 0, duration, duration, 0, images.W, images.H, <<>>, <<>>, 0)

\* clip.with_fps(fps)
with_fps(c, fps) == [c EXCEPT !.fps = fps, !.fx = Append(@, Fx("with_fps", fps))]

\* the duration taken as the time between the first frame and the last
convert_between_frames(images, fps) ==
  IF images.none \/ numel(images) = 0 \/ images.B = 0
  THEN [status |-> "ValueError", wrapper |-> VideoWrapper(0, NoneClip)]
  ELSE [status |-> "returned",
        wrapper |-> VideoWrapper(0, with_fps(VideoClip(images, fps,
                                                       Rational(images.B - 1, fps)),
                                             fps))]

\* ImagesToVideo.convert_to_video
convert_to_video(images, fps) ==
  IF images.none \/ numel(images) = 0
  THEN [status |-> "ValueError", wrapper |-> VideoWrapper(0, NoneClip)]
  ELSE IF images.B = 0
  THEN [status |-> "ValueError", wrapper |-> VideoWrapper(0, NoneClip)]
  ELSE LET duration == Rational(images.B, fps)
           clip == VideoClip(images, fps, duration)
       IN  [status |-> "returned", wrapper |-> VideoWrapper(0, with_fps(clip, fps))]

\* ------------------------------------------------------------------ common.py
\* image_tensor_to_moviepy_clip(tensor, fps): an ImageSequenceClip of the
\* tensor's B frames at fps; slot names the input it was made from. The clips
\* of one call share fps, and their durations are counted in frames.
image_tensor_to_moviepy_clip(tensor, fps, slot) ==
  IF tensor.none \/ numel(tensor) = 0 THEN ErrorClip
  ELSE MkClip("clip", slot, 0, tensor.B, tensor.B, fps, tensor.W, tensor.H,
              <<>>, <<>>, 0)

\* moviepy_clip_to_image_tensor(clip): the frames of clip.iter_frames()
moviepy_clip_to_image_tensor(clip) ==
  IF clip.kind = "none" \/ clip.dur = 0 THEN NoImages
  ELSE Tensor(clip.dur, clip.h, clip.w)

resize_clip_to_resolution(clip, target_width, target_height) ==
  IF clip.kind = "none" \/ target_width <= 0 \/ target_height <= 0 THEN ErrorClip
  ELSE resize(clip, <<target_width, target_height>>)

\* ------------------------------------------- node_types/CombineVideos
\* the optional inputs IMAGE2.. the model gives a value to; the rest are None
MaxSlots == 3

\* video_inputs: IMAGE1 and the optional inputs that are not None, each with
\* the number of its slot
VideoInputs(IMAGE1, optional) ==
  SelectSeq([k \in 1..(Len(optional) + 1) |->
               [slot |-> k,
                tensor |-> IF k = 1 THEN IMAGE1 ELSE optional[k - 1]]],
            LAMBDA v : v.slot = 1 \/ ~v.tensor.none)

\* the clips list after the loop over video_inputs
CombineClips(video_inputs, fps) ==
  LET made == [i \in 1..Len(video_inputs) |->
                 image_tensor_to_moviepy_clip(video_inputs[i].tensor, fps,
                                              video_inputs[i].slot)]
      target == SizeOf(made[1])
  IN  [i \in 1..Len(made) |->
         IF i = 1 \/ IsError(made[i]) THEN made[i]
         ELSE IF SizeOf(made[i]) # target
         THEN resize_clip_to_resolution(made[i], target[1], target[2])
         ELSE made[i]]

\* the node resizing every clip after the first, whatever its size
combine_resize_all(IMAGE1, fps, optional) ==
  LET video_inputs == VideoInputs(IMAGE1, optional)
      made == [i \in 1..Len(video_inputs) |->
                 image_tensor_to_moviepy_clip(video_inputs[i].tensor, fps,
                                              video_inputs[i].slot)]
      clips == [i \in 1..Len(made) |->
                  IF i = 1 \/ IsError(made[i]) THEN made[i]
                  ELSE resize_clip_to_resolution(made[i], made[1].w, made[1].h)]
      combined_clip == concatenate_videoclips(clips, 0)
  IN  IF AnyError(clips)
      THEN [status |-> "ValueError", combined |-> NoneClip, tensor |-> NoImages]
      ELSE [status |-> "returned", combined |-> combined_clip,
            tensor |-> moviepy_clip_to_image_tensor(combined_clip)]

\* MPACombineVideos.combine_videos(IMAGE1, fps, IMAGE2, ...)
combine_videos(IMAGE1, fps, optional) ==
  LET video_inputs == VideoInputs(IMAGE1, optional)
      clips == CombineClips(video_inputs, fps)
      combined_clip == IF Len(clips) = 1 THEN clips[1]
                       ELSE concatenate_videoclips(clips, 0)
  IN  IF video_inputs = <<>> \/ AnyError(clips)
      THEN [status |-> "ValueError", combined |-> NoneClip, tensor |-> NoImages]
      ELSE [status |-> "returned", combined |-> combined_clip,
            tensor |-> moviepy_clip_to_image_tensor(combined_clip)]

\* ------------------------------------------------------------------- utils.py
\* f.read(4096)
ChunkSize == 4096

\* 1024 * 1024: files below 1 MiB are hashed whole
SampleThreshold == 1048576

\* an activation of calculate_file_hash(filepath, hash_every_n): whether the
\* path exists and can be opened, the file's size, the locals bytes_read and
\* the file position, the number of chunks fed to the hash, whether the file
\* was opened, what was returned, and the statement reached
Activation(exists, readable, file_size, hash_every_n) ==
  [pc |-> "start", exists |-> exists, readable |-> readable,
   file_size |-> file_size, hash_every_n |-> hash_every_n, bytes_read |-> 0,
   pos |-> 0, chunks |-> 0, opened |-> FALSE, result |-> ""]

NotHashing == [Activation(FALSE, FALSE, 0, 1) EXCEPT !.pc = "idle"]

\* len(f.read(4096)) at the file position
ReadLength(h) == Max(0, Min(ChunkSize, h.file_size - h.pos))

\* the existence test and the stat
hash_start(h) ==
  IF ~h.exists THEN [h EXCEPT !.pc = "done", !.result = "0"]
  ELSE [h EXCEPT !.pc = "open"]

\* open(filepath, "rb") and the choice of the branch; a failing open is caught
hash_open(h) ==
  IF ~h.readable THEN [h EXCEPT !.pc = "return"]
  ELSE IF h.hash_every_n = 1 \/ h.file_size < SampleThreshold
  THEN [h EXCEPT !.pc = "whole", !.opened = TRUE]
  ELSE [h EXCEPT !.pc = "sample", !.opened = TRUE, !.bytes_read = 0]

\* one round of iter(lambda: f.read(4096), b"")
hash_whole(h) ==
  IF ReadLength(h) = 0 THEN [h EXCEPT !.pc = "return"]
  ELSE [h EXCEPT !.chunks = @ + 1, !.pos = @ + ReadLength(h)]

\* the sampling loop seeking without moving bytes_read on
hash_sample_stuck(h) ==
  IF ~(h.bytes_read < h.file_size) THEN [h EXCEPT !.pc = "return"]
  ELSE IF ReadLength(h) = 0 THEN [h EXCEPT !.pc = "return"]
  ELSE [h EXCEPT !.pos = h.bytes_read]

\* one round of the sampling loop: test, read, update, advance, seek
hash_sample(h) ==
  IF ~(h.bytes_read < h.file_size) THEN [h EXCEPT !.pc = "return"]
  ELSE IF ReadLength(h) = 0 THEN [h EXCEPT !.pc = "return"]
  ELSE [h EXCEPT !.chunks = @ + 1,
                 !.bytes_read = @ + ChunkSize * h.hash_every_n,
                 !.pos = h.bytes_read + ChunkSize * h.hash_every_n]

\* the return of size, mtime and digest
hash_return(h) == [h EXCEPT !.pc = "done", !.result = "size_mtime_digest"]

\* ------------------------------------------------------------ state machine
VARIABLES
  videos,  \* the caller's list of VideoWrapper objects
  call,    \* the last call made and its arguments
  out,     \* what the last call returned or raised
  hash     \* the activation of calculate_file_hash: arguments, locals, position

vars == <<videos, call, out, hash>>

\* the caller's i-th input: a clip straight from a loader, wrapped
InputVideo(i, p, dur) ==
  VideoWrapper(i, MkClip("clip", i, 0, dur, dur, p.fps, p.w, p.h, <<>>, <<>>, 0))

InputLists ==
  UNION { { [i \in 1..n |-> InputVideo(i, ps[i], ds[i])] :
              ps \in [1..n -> Profiles], ds \in [1..n -> 1..MaxDur] } :
          n \in 0..MaxClips }

Modes == {"simple", "transition"}

\* the declared choices of transition_type and one name outside them
KindInputs == TransitionKinds \cup {"nonsense"}

\* transition_duration as the node declares it (at least 0.1)
Durations == 1..MaxTrans

\* the duration a direct caller of apply_transition may pass: zero as well
DirectDurations == 0..MaxTrans

Call(op, clip, mode, kind, duration, fps, size) ==
  [op |-> op, clip |-> clip, mode |-> mode, kind |-> kind, duration |-> duration,
   fps |-> fps, size |-> size, params |-> <<>>]

Out(status, wrapper, fps, size, ran) ==
  [status |-> status, wrapper |-> wrapper, fps |-> fps, size |-> size, ran |-> ran,
   frames |-> <<>>, shape |-> <<0, 0>>, props |-> <<>>, combined |-> NoneClip,
   tensor |-> NoImages, index |-> 0 - 1]

\* the node's numeric inputs: intensity, blur_radius, speed_factor, noise_level
Intensities == {0, 1}

BlurRadii == {1, 2}

SpeedFactors == {1, 2}

NoiseLevels == {0, 1}

\* the fps a caller asks frames at: 0 for the clip's own
FrameRates == {0, 1, 5}

\* start_time and end_time in ticks, up to one tick past the longest clip
Times == 0..(TicksPerSecond * MaxDur + 1)

\* the batches a caller converts: None, or up to MaxBatch frames of one of the
\* profiles' sizes
ImageBatches ==
  {NoImages} \cup {Tensor(B, p.h, p.w) : B \in 0..MaxBatch, p \in Profiles}

\* the fps a caller builds a video at
ImageRates == {1, 2, 24}

\* the clip of the test fixture: a Mock with duration, fps, size, w and h
MockClip == MkClip("Mock", 0, 0, 10, 10, 30, 1920, 1080, <<>>, <<>>, 0)

\* the objects a caller wraps: a clip it holds, or the fixture's
Wrappable == {videos[i].clip : i \in 1..Len(videos)} \cup {MockClip}

\* the frames of a video handed to the combining node
MaxFrames == 2

\* an IMAGE input of the combining node: None, or a batch of up to MaxFrames
\* frames of one of the profiles' sizes
CombineInputs ==
  {NoImages} \cup {Tensor(B, p.h, p.w) : B \in 0..MaxFrames, p \in Profiles}

\* hash_every_n as callers pass it: 1 for the whole file, more to sample
MaxEveryN == 3

\* chunks past the sampling threshold in the largest files
MaxExtraChunks == 4

\* sizes of the files hashed: empty, tiny, one chunk, around the threshold,
\* and some chunks past it
FileSizes ==
  {0, 1, ChunkSize, ChunkSize + 1, SampleThreshold - 1, SampleThreshold}
  \cup {SampleThreshold + k * ChunkSize + 1 : k \in 0..MaxExtraChunks}

\* the fps of the clips whose frames are requested
ClipRates == {1, 3, 24, 49}

\* the frame numbers k of the request times k / fps, some past the clip's end
FrameNumbers == 0..MaxBatch + 1

Init ==
  /\ videos \in InputLists
  /\ call = Call("none", NoneClip, "", "", 0, NoOverride, NoTarget.size)
  /\ out = Out("none", VideoWrapper(0, NoneClip), NoTarget.fps, NoTarget.size, <<>>)
  /\ hash = NotHashing

\* A call works on the caller's list alone and leaves nothing behind for the
\* next one, so each run makes one call on its input; only the per-clip
\* conversions are chained, each on the clip the previous one returned.
Idle == call.op = "none"

\* the clips a caller hands to a per-clip conversion: an input clip first,
\* then the clip the previous conversion returned
Held ==
  IF Idle THEN {videos[i].clip : i \in 1..Len(videos)}
  ELSE IF call.op \in {"set_fps_if_needed", "resize_to_target"}
  THEN {out.wrapper.clip}
  ELSE {}

\* normalize_video_params(videos, target_fps)
Normalize(target_fps) ==
  LET r == normalize_video_params(videos, target_fps)
  IN  /\ Idle
      /\ call' = Call("normalize_video_params", NoneClip, "", "", 0, target_fps,
                      NoTarget.size)
      /\ out' = Out(r.status, VideoWrapper(0, NoneClip), r.fps, r.size, <<>>)
      /\ UNCHANGED <<videos, hash>>

\* set_fps_if_needed(clip, target_fps)
SetFps(clip, target_fps) ==
  LET r == set_fps_if_needed(clip, target_fps)
  IN  /\ Len(r.fx) <= MaxOps
      /\ call' = Call("set_fps_if_needed", clip, "", "", 0, target_fps,
                      NoTarget.size)
      /\ out' = Out("returned", VideoWrapper(0, r), NoTarget.fps, NoTarget.size,
                    <<>>)
      /\ UNCHANGED <<videos, hash>>

\* resize_to_target(clip, target_size)
Resize(clip, target_size) ==
  LET r == resize_to_target(clip, target_size)
  IN  /\ Len(r.fx) <= MaxOps
      /\ call' = Call("resize_to_target", clip, "", "", 0, NoOverride, target_size)
      /\ out' = Out("returned", VideoWrapper(0, r), NoTarget.fps, NoTarget.size,
                    <<>>)
      /\ UNCHANGED <<videos, hash>>

\* the node storing each conformed clip back into the wrapper it came from
Concatenate_inplace(mode, kind, duration) ==
  LET r == concatenate(videos, mode, kind, duration)
      t == normalize_video_params(videos, NoOverride)
  IN  /\ Idle
      /\ call' = Call("concatenate", NoneClip, mode, kind, duration, NoOverride,
                      NoTarget.size)
      /\ out' = Out(r.status, r.wrapper, NoTarget.fps, NoTarget.size, r.ran)
      /\ videos' = IF Len(videos) >= 2
                   THEN [i \in 1..Len(videos) |->
                           VideoWrapper(i, NormalizedClips(videos, t.fps, t.size)[i])]
                   ELSE videos
      /\ UNCHANGED hash

\* VideoConcatenate.concatenate(videos, [mode], [transition_type],
\* [transition_duration])
Concatenate(mode, kind, duration) ==
  LET r == concatenate(videos, mode, kind, duration)
  IN  /\ Idle
      /\ call' = Call("concatenate", NoneClip, mode, kind, duration, NoOverride,
                      NoTarget.size)
      /\ out' = Out(r.status, r.wrapper, NoTarget.fps, NoTarget.size, r.ran)
      /\ UNCHANGED <<videos, hash>>

\* apply_transition(clips, transition_type, duration) on the input clips
ApplyTransition(kind, duration) ==
  LET r == apply_transition(ClipsOf(videos), kind, duration)
  IN  /\ Idle
      /\ call' = Call("apply_transition", NoneClip, "", kind, duration, NoOverride,
                      NoTarget.size)
      /\ out' = Out(r.status, VideoWrapper(0, r.val), NoTarget.fps, NoTarget.size,
                    r.ran)
      /\ UNCHANGED <<videos, hash>>

\* VideoEffects.apply_effect(video, effect_type, intensity, [blur_radius],
\* [speed_factor], [noise_level]) on the caller's one video
ApplyEffect(effect_type, intensity, blur_radius, speed_factor, noise_level) ==
  LET r == VideoEffects_apply_effect(videos[1], effect_type, intensity,
                                     blur_radius, speed_factor, noise_level)
  IN  /\ Idle /\ Len(videos) = 1
      /\ call' = [Call("VideoEffects.apply_effect", videos[1].clip, "", effect_type,
                       0, NoOverride, NoTarget.size)
                    EXCEPT !.params = <<intensity, blur_radius, speed_factor,
                                        noise_level>>]
      /\ out' = Out(r.status, r.wrapper, NoTarget.fps, NoTarget.size, r.ran)
      /\ UNCHANGED <<videos, hash>>

\* VideoToImages.convert_to_images(video, [fps], [start_time], [end_time]) on
\* the caller's one video
ConvertToImages(fps, start_time, end_time) ==
  LET r == convert_to_images(videos[1], fps, start_time, end_time)
  IN  /\ Idle /\ Len(videos) = 1
      /\ call' = [Call("convert_to_images", videos[1].clip, "", "", 0, fps,
                       NoTarget.size)
                    EXCEPT !.params = <<start_time, end_time>>]
      /\ out' = [Out(r.status, VideoWrapper(0, NoneClip), NoTarget.fps,
                     NoTarget.size, <<>>)
                   EXCEPT !.frames = r.frames, !.shape = r.shape]
      /\ UNCHANGED <<videos, hash>>

\* ImagesToVideo.convert_to_video(images, fps); the caller holds no video yet
ConvertToVideo(images, fps) ==
  LET r == convert_to_video(images, fps)
  IN  /\ Idle /\ videos = <<>>
      /\ call' = [Call("convert_to_video", NoneClip, "", "", 0, fps, NoTarget.size)
                    EXCEPT !.params = images]
      /\ out' = Out(r.status, r.wrapper, NoTarget.fps, NoTarget.size, <<>>)
      /\ UNCHANGED <<videos, hash>>

\* wrapper = VideoWrapper(clip), then a read of each of its properties
Wrap(clip) ==
  LET r == VideoWrapper_init(clip)
  IN  /\ Idle /\ Len(videos) <= 1
      /\ call' = Call("VideoWrapper", clip, "", "", 0, NoOverride, NoTarget.size)
      /\ out' = [Out(r.status, r.wrapper, NoTarget.fps, NoTarget.size, <<>>)
                   EXCEPT !.props = IF r.status = "returned"
                                    THEN VideoWrapper_properties(r.wrapper)
                                    ELSE <<>>]
      /\ UNCHANGED <<videos, hash>>

\* MPACombineVideos.combine_videos(IMAGE1, fps, [IMAGE2], ...); the node takes
\* IMAGE tensors, the caller holds no video
CombineVideos(IMAGE1, fps, optional) ==
  LET r == combine_videos(IMAGE1, fps, optional)
  IN  /\ Idle /\ videos = <<>>
      /\ call' = [Call("combine_videos", NoneClip, "", "", 0, fps, NoTarget.size)
                    EXCEPT !.params = <<IMAGE1>> \o optional]
      /\ out' = [Out(r.status, VideoWrapper(0, NoneClip), NoTarget.fps,
                     NoTarget.size, <<>>)
                   EXCEPT !.combined = r.combined, !.tensor = r.tensor]
      /\ UNCHANGED <<videos, hash>>

\* clip.get_frame(t) on the clip convert_to_video(images, fps) built, at the
\* time t = k / fps of frame k (video_to_images.py computes it so), or at -t
GetFrame(images, fps, k, neg) ==
  LET r == convert_to_video(images, fps)
      t == IF neg THEN float_neg(float_div(k, fps)) ELSE float_div(k, fps)
  IN  /\ Idle /\ videos = <<>>
      /\ r.status = "returned"
      /\ call' = [Call("make_frame", NoneClip, "", "", 0, fps, NoTarget.size)
                    EXCEPT !.params = [images |-> images, k |-> k, neg |-> neg]]
      /\ out' = [Out(r.status, r.wrapper, NoTarget.fps, NoTarget.size, <<>>)
                   EXCEPT !.index = make_frame(t, fps, images.B)]
      /\ UNCHANGED <<videos, hash>>

Next ==
  \/ \E f \in FpsValues \cup {NoOverride} : Normalize(f)
  \/ \E c \in Held, f \in FpsValues : SetFps(c, f)
  \/ \E c \in Held : Resize(c, normalize_video_params(videos, NoOverride).size)
  \/ \E m \in Modes, k \in KindInputs, d \in Durations : Concatenate(m, k, d)
  \/ \E k \in KindInputs, d \in DirectDurations : ApplyTransition(k, d)
  \/ /\ Idle /\ Len(videos) = 1
     /\ \E e \in EffectKinds, i \in Intensities, b \in BlurRadii, f \in SpeedFactors,
           l \in NoiseLevels : ApplyEffect(e, i, b, f, l)
  \/ /\ Idle /\ Len(videos) = 1
     /\ \E f \in FrameRates, t0 \in Times, t1 \in Times : ConvertToImages(f, t0, t1)
  \/ /\ Idle /\ videos = <<>>
     /\ \E b \in ImageBatches, f \in ImageRates : ConvertToVideo(b, f)
  \/ /\ Idle /\ Len(videos) <= 1
     /\ \E c \in Wrappable : Wrap(c)
  \/ /\ Idle /\ videos = <<>>
     /\ \E i1 \in CombineInputs \ {NoImages}, f \in FpsValues,
           o \in [1..MaxSlots -> CombineInputs] : CombineVideos(i1, f, o)
  \/ /\ Idle /\ videos = <<>>
     /\ \E b \in ImageBatches \ {NoImages}, f \in ClipRates, k \in FrameNumbers,
           n \in BOOLEAN : GetFrame(b, f, k, n)

Spec == Init /\ [][Next]_vars

\* ---------------------------------------------- calculate_file_hash, stepwise
HashInit ==
  /\ videos = <<>>
  /\ call = Call("none", NoneClip, "", "", 0, NoOverride, NoTarget.size)
  /\ out = Out("none", VideoWrapper(0, NoneClip), NoTarget.fps, NoTarget.size, <<>>)
  /\ hash \in {Activation(x, r, s, n) :
                 x \in BOOLEAN, r \in BOOLEAN, s \in FileSizes, n \in 1..MaxEveryN}

HashStart ==
  /\ hash.pc = "start" /\ hash' = hash_start(hash)
  /\ UNCHANGED <<videos, call, out>>

HashOpen ==
  /\ hash.pc = "open" /\ hash' = hash_open(hash)
  /\ UNCHANGED <<videos, call, out>>

HashWhole ==
  /\ hash.pc = "whole" /\ hash' = hash_whole(hash)
  /\ UNCHANGED <<videos, call, out>>

HashSample ==
  /\ hash.pc = "sample" /\ hash' = hash_sample(hash)
  /\ UNCHANGED <<videos, call, out>>

HashReturn ==
  /\ hash.pc = "return" /\ hash' = hash_return(hash)
  /\ UNCHANGED <<videos, call, out>>

HashNext == HashStart \/ HashOpen \/ HashWhole \/ HashSample \/ HashReturn

\* the interpreter keeps running the call
HashSpec == HashInit /\ [][HashNext]_vars /\ WF_vars(HashNext)


\* ------------------------------------------------------------------ claims
NumVideos == Len(videos)

Returned == out.status = "returned"

Normalized == call.op = "normalize_video_params"

\* the clip the last call returned
Result == out.wrapper.clip

\* C1: after normalize_video_params on a non-empty sequence, the target width
\* is the greatest width of the input clips and the target height their
\* greatest height, each taken over all clips on its own.
C1_TargetSizeIsComponentwiseMax ==
  (Normalized /\ NumVideos >= 1) =>
     /\ Returned
     /\ \A i \in 1..NumVideos : videos[i].clip.w <= out.size[1] /\ videos[i].clip.h <= out.size[2]
     /\ \E i \in 1..NumVideos : videos[i].clip.w = out.size[1]
     /\ \E i \in 1..NumVideos : videos[i].clip.h = out.size[2]

\* a normalized batch whose widest clip is not its tallest, so the target is
\* the size of no input clip
C1_Witness ==
  /\ Normalized /\ Returned /\ NumVideos >= 2
  /\ \A i \in 1..NumVideos : SizeOf(videos[i].clip) # out.size
  /\ out.size = <<640, 480>>

\* C2: normalize_video_params returns the override as target rate when one is
\* given and the first clip's rate otherwise; for a single clip without
\* override it returns that clip's rate and size.
C2_TargetFpsIsOverrideOrFirst ==
  (Normalized /\ NumVideos >= 1) =>
     /\ Returned
     /\ call.fps # NoOverride => out.fps = call.fps
     /\ call.fps = NoOverride => out.fps = videos[1].clip.fps
     /\ (call.fps = NoOverride /\ NumVideos = 1) =>
          /\ out.fps = videos[1].clip.fps
          /\ out.size = <<videos[1].clip.w, videos[1].clip.h>>

\* no override, and a later clip whose rate differs from the first clip's
C2_Witness ==
  /\ Normalized /\ Returned /\ NumVideos >= 2 /\ call.fps = NoOverride
  /\ videos[NumVideos].clip.fps # videos[1].clip.fps
  /\ out.fps = videos[1].clip.fps

\* C3: normalize_video_params on an empty sequence raises ValueError and
\* returns no target, with or without an override.
C3_EmptyNormalizeFails ==
  (Normalized /\ NumVideos = 0) =>
     /\ out.status = "ValueError"
     /\ out.fps = NoTarget.fps
     /\ out.size = NoTarget.size

\* the empty sequence normalized with an override
C3_Witness ==
  Normalized /\ NumVideos = 0 /\ call.fps \in FpsValues /\ out.status = "ValueError"

\* C4: set_fps_if_needed returns the clip it was given when the rate already
\* is the target, resize_to_target returns the clip it was given when the size
\* already is the target, and either way the clip returned has the target
\* rate, respectively size, and is otherwise the clip given.
C4_ConformIsIdempotent ==
  /\ call.op = "set_fps_if_needed" =>
       /\ Result.fps = call.fps
       /\ SizeOf(Result) = SizeOf(call.clip) /\ Result.dur = call.clip.dur
       /\ call.clip.fps = call.fps => Result = call.clip
  /\ call.op = "resize_to_target" =>
       /\ SizeOf(Result) = call.size
       /\ Result.fps = call.clip.fps /\ Result.dur = call.clip.dur
       /\ SizeOf(call.clip) = call.size => Result = call.clip

\* a clip that was resampled and resized to the target is resized to the same
\* target again
C4_Witness ==
  /\ call.op = "resize_to_target"
  /\ Len(call.clip.fx) = 2
  /\ call.clip.fx[1].op = "set_fps" /\ call.clip.fx[2].op = "resize"
  /\ SizeOf(call.clip) = call.size
  /\ Result = call.clip

\* the calls that composite with kind 'none'
PlainConcatenate ==
  \/ call.op = "concatenate" /\ (call.mode = "simple" \/ call.kind = "none")
  \/ call.op = "apply_transition" /\ call.kind = "none"

\* C5: compositing at least one clip with kind 'none' returns a timeline whose
\* duration is the sum of the input clips' durations, whatever transition
\* duration is passed.
C5_NoneDurationIsSum ==
  (PlainConcatenate /\ NumVideos >= 1) =>
     /\ Returned
     /\ Result.dur = SumDur(ClipsOf(videos))

\* three clips of mixed sizes through the node in mode 'transition' with type
\* 'none' and the longest transition duration
C5_Witness ==
  /\ call.op = "concatenate" /\ call.mode = "transition" /\ call.kind = "none"
  /\ NumVideos = 3 /\ call.duration = MaxTrans
  /\ videos[1].clip.w # videos[2].clip.w
  /\ Returned /\ Result.dur = SumDur(ClipsOf(videos))

\* the one-element sequence composited with kind 'none'
SingleNone == PlainConcatenate /\ NumVideos = 1

\* C6 as stated: compositing [C] with kind 'none' returns C itself, and
\* nothing is normalized, converted or concatenated on the way.
C6_SingleNoneReturnsSameClip ==
  SingleNone =>
     /\ Returned
     /\ Result = videos[1].clip
     /\ \A i \in 1..Len(out.ran) :
          out.ran[i] \notin {"none", "concatenate_videoclips", "normalize_video_params"}

\* C6, amended: VideoConcatenate.concatenate returns the very wrapper it was
\* given, for every mode, transition type and duration, and runs nothing;
\* apply_transition with 'none' returns the concatenation of the one clip, a
\* new clip that holds C untouched as its only segment and has C's duration,
\* size and rate.
C6_SingleNoneKeepsClip ==
  /\ (call.op = "concatenate" /\ NumVideos = 1) =>
        /\ Returned
        /\ out.wrapper = videos[1]
        /\ out.ran = <<>>
  /\ (call.op = "apply_transition" /\ call.kind = "none" /\ NumVideos = 1) =>
        /\ Returned
        /\ Result.kind = "concat"
        /\ Result.segs = <<videos[1].clip>>
        /\ Result.dur = videos[1].clip.dur
        /\ SizeOf(Result) = SizeOf(videos[1].clip)
        /\ Result.fps = videos[1].clip.fps

\* one video through the node in mode 'transition' with type 'none'
C6_Witness ==
  /\ call.op = "concatenate" /\ NumVideos = 1
  /\ call.mode = "transition" /\ call.kind = "none" /\ call.duration = MaxTrans
  /\ out.wrapper = videos[1]

\* the calls that composite with the given transition kinds
Composites(kinds) ==
  \/ call.op = "concatenate" /\ call.mode = "transition" /\ call.kind \in kinds
  \/ call.op = "apply_transition" /\ call.kind \in kinds

\* every input clip is longer than k transition durations
AllLongerThan(k) ==
  \A i \in 1..NumVideos : videos[i].clip.dur > k * call.duration

\* C7: a crossfade over n >= 2 clips, each longer than the transition duration
\* d, lasts the sum of the clips' durations minus (n - 1) * d; two clips of 3 s
\* with d = 1 give 5 s.
C7_CrossfadeDuration ==
  (Composites({"crossfade"}) /\ NumVideos >= 2 /\ AllLongerThan(1)) =>
     /\ Returned
     /\ Result.dur = SumDur(ClipsOf(videos)) - (NumVideos - 1) * call.duration
     /\ (NumVideos = 2 /\ videos[1].clip.dur = 3 /\ videos[2].clip.dur = 3
           /\ call.duration = 1) => Result.dur = 5

\* three clips of 3 s crossfaded over 2 s each: 9 - 2 * 2 = 5 s
C7_Witness ==
  /\ Composites({"crossfade"}) /\ NumVideos = 3 /\ call.duration = 2
  /\ \A i \in 1..NumVideos : videos[i].clip.dur = 3
  /\ Returned /\ Result.dur = 5

\* the input clip a segment of a timeline shows
RECURSIVE SourcesOf(_)
SourcesOf(segs) ==
  IF segs = <<>> THEN <<>> ELSE <<Head(segs).src>> \o SourcesOf(Tail(segs))

\* the fades of a segment, in the order applied
RECURSIVE FadesOf(_)
FadesOf(fx) ==
  IF fx = <<>> THEN <<>>
  ELSE (IF Head(fx).op \in {"crossfadein", "crossfadeout"} THEN <<Head(fx)>> ELSE <<>>)
       \o FadesOf(Tail(fx))

\* C8 as stated: zoom_in and zoom_out build the timeline apply_crossfade
\* builds from the same clips and duration: as many segments, segment i
\* showing input clip i with the fades crossfade gives it, and the same total
\* duration.
C8_ZoomSameAsCrossfade ==
  (call.op = "apply_transition" /\ call.kind \in {"zoom_in", "zoom_out"}
     /\ NumVideos >= 2 /\ AllLongerThan(1)) =>
     LET x == apply_crossfade(ClipsOf(videos), call.duration)
     IN  /\ Returned
         /\ Result.dur = x.dur
         /\ Len(Result.segs) = Len(x.segs)
         /\ SourcesOf(Result.segs) = SourcesOf(x.segs)
         /\ \A i \in 1..Len(x.segs) :
              i <= Len(Result.segs) => FadesOf(Result.segs[i].fx) = FadesOf(x.segs[i].fx)

\* C9 as stated: a slide over n >= 2 clips, each longer than twice the
\* transition duration d, lasts the sum of the clips' durations minus
\* (n - 1) * d.
C9_SlideDuration ==
  (Composites({"slide_left", "slide_right"}) /\ NumVideos >= 2 /\ AllLongerThan(2)) =>
     /\ Returned
     /\ Result.dur = SumDur(ClipsOf(videos)) - (NumVideos - 1) * call.duration

\* a call with a transition type that is no key of TRANSITION_FUNCTIONS
UnknownKind ==
  call.op \in {"concatenate", "apply_transition"} /\ call.kind \notin TransitionKinds

RanNoTransition ==
  \A i \in 1..Len(out.ran) :
     out.ran[i] \notin TransitionKinds \cup {"concatenate_videoclips"}

\* C10 as stated: a transition type outside the eight known ones makes the
\* call fail with ValueError, whatever the clips, the mode and the duration,
\* and before any transition function or concatenation is run.
C10_UnknownKindAlwaysFails ==
  UnknownKind => out.status = "ValueError" /\ RanNoTransition

\* C10, amended: apply_transition fails with ValueError on an unknown type,
\* for every clip sequence and duration, before it runs any transition
\* function or concatenation; VideoConcatenate.concatenate does so when the
\* mode is 'transition' and it has at least two videos, while in mode 'simple'
\* it ignores the type and returns the plain concatenation, with one video it
\* returns that video and with none it raises its own ValueError.
C10_UnknownKindFailsInTransitionMode ==
  /\ (UnknownKind /\ call.op = "apply_transition") =>
        out.status = "ValueError" /\ RanNoTransition
  /\ (UnknownKind /\ call.op = "concatenate") =>
        /\ NumVideos = 0 => out.status = "ValueError" /\ out.ran = <<>>
        /\ NumVideos = 1 => Returned /\ out.wrapper = videos[1]
        /\ (NumVideos >= 2 /\ call.mode = "transition") =>
              out.status = "ValueError" /\ RanNoTransition
        /\ (NumVideos >= 2 /\ call.mode = "simple") =>
              /\ Returned
              /\ out.ran = <<"normalize_video_params", "concatenate_videoclips">>
              /\ Result.dur = SumDur(ClipsOf(videos))

\* two or more videos through the node in mode 'transition' with an unknown
\* type
C10_Witness ==
  /\ UnknownKind /\ call.op = "concatenate" /\ call.mode = "transition"
  /\ NumVideos >= 2
  /\ out.status = "ValueError"
  /\ out.ran = <<"normalize_video_params", "apply_transition">>

\* the transition kinds other than 'none'
RealKinds == TransitionKinds \ {"none"}

\* C11 as stated: compositing the empty sequence with kind 'crossfade' and
\* duration 1 fails with ValueError and returns nothing, None included.
C11_EmptyCrossfadeFails ==
  (Composites({"crossfade"}) /\ NumVideos = 0 /\ call.duration = 1) =>
     out.status = "ValueError"

\* C12 as stated: compositing fewer than two clips with a kind other than
\* 'none' fails with ValueError.
C12_UndersizedFails ==
  (Composites(RealKinds) /\ NumVideos < 2) => out.status = "ValueError"

\* C13 as stated, for two or more clips: compositing with a kind other than
\* 'none' and a duration that is not positive fails with ValueError before any
\* transition function or concatenation is run.
C13_NonPositiveDurationFails ==
  (Composites(RealKinds) /\ NumVideos >= 2 /\ call.duration <= 0) =>
     out.status = "ValueError" /\ RanNoTransition

\* the node called in mode 'transition' with a slide
NodeSlide ==
  /\ call.op = "concatenate" /\ call.mode = "transition"
  /\ call.kind \in {"slide_left", "slide_right"}
  /\ NumVideos >= 2

\* C14: in a slide built by the node every transition segment has the frame
\* size the clips were conformed to, as have the two clips composited in it,
\* the remainders and the timeline itself.
C14_SlideKeepsCanvas ==
  NodeSlide =>
     LET target == normalize_video_params(videos, NoOverride).size
     IN  /\ Returned
         /\ SizeOf(Result) = target
         /\ \A k \in 1..Len(Result.segs) :
              /\ SizeOf(Result.segs[k]) = target
              /\ \A j \in 1..Len(Result.segs[k].segs) :
                   SizeOf(Result.segs[k].segs[j]) = target

\* three videos of two different sizes slid to the right: the timeline has
\* transition segments and remainders
C14_Witness ==
  /\ NodeSlide /\ call.kind = "slide_right" /\ NumVideos = 3
  /\ SizeOf(videos[1].clip) # SizeOf(videos[2].clip)
  /\ Returned
  /\ \E k \in 1..Len(Result.segs) : Result.segs[k].kind = "composite"
  /\ \E k \in 1..Len(Result.segs) : Result.segs[k].kind = "clip"

\* the input clips a segment shows: its own source, or for a composited
\* segment the sources of its members
SegSources(seg) ==
  IF seg.kind = "composite" THEN {seg.segs[j].src : j \in 1..Len(seg.segs)}
  ELSE {seg.src}

\* the call composites the input clips, two or more of them
CompositesMany ==
  /\ call.op \in {"concatenate", "apply_transition"}
  /\ NumVideos >= 2 /\ Returned /\ Result.kind = "concat"

\* segment p of the timeline shows input clip a
Shows(p, a) == a \in SegSources(Result.segs[p])

\* C15 as stated: the i-th normalized clip comes from the i-th input, and in
\* the timeline material of input clip a never begins after material of input
\* clip b when a < b, for every kind and every number of clips.
C15_MaterialBeginsInOrder ==
  /\ (call.op = "concatenate" /\ NumVideos >= 2) =>
        LET t == normalize_video_params(videos, NoOverride)
        IN  \A i \in 1..NumVideos :
               NormalizedClips(videos, t.fps, t.size)[i].src = i
  /\ CompositesMany =>
        \A p, q \in 1..Len(Result.segs) : \A a, b \in 1..NumVideos :
           (Shows(p, a) /\ Shows(q, b) /\ a < b) =>
              StartTime(Result, p) <= StartTime(Result, q)


\* a clip as a loader hands it over: uncut and with no effect on it
Pristine(c) == c.kind = "clip" /\ c.fx = <<>> /\ c.t0 = 0 /\ c.t1 = c.dur

\* a clip carrying a fade, a cut, a resize or a frame rate change
Worked(c) == c.kind = "clip" /\ (c.fx # <<>> \/ c.t0 # 0 \/ c.t1 # c.dur)

\* the clips a returned timeline is made of, transition members included
PartsOf(c) ==
  {c.segs[k] : k \in 1..Len(c.segs)} \cup
  UNION {{c.segs[k].segs[j] : j \in 1..Len(c.segs[k].segs)} : k \in 1..Len(c.segs)}

\* C16: a call to VideoConcatenate.concatenate or apply_transition, returning
\* or raising, leaves the caller's list as it was (same length, same elements,
\* same order, every clip's duration, frame rate and size unchanged), and
\* every fade, cut and resize sits on a clip that is not one of the inputs.
C16_InputsAreReadOnly ==
  [][call'.op \in {"concatenate", "apply_transition"} =>
       /\ videos' = videos
       /\ \A i \in 1..Len(videos') : Pristine(videos'[i].clip)
       /\ out'.status = "returned" =>
            \A c \in PartsOf(out'.wrapper.clip) :
               Worked(c) => c \notin {videos'[i].clip : i \in 1..Len(videos')}]_vars

\* two videos of different sizes faded through black by the node: the
\* timeline's clips are resized and faded, the inputs are as they were
C16_Witness ==
  /\ call.op = "concatenate" /\ call.mode = "transition"
  /\ call.kind = "fade_black" /\ NumVideos = 2 /\ Returned
  /\ SizeOf(videos[1].clip) # SizeOf(videos[2].clip)
  /\ \E c \in PartsOf(Result) : Worked(c) /\ Len(c.fx) >= 2
  /\ \A i \in 1..NumVideos : Pristine(videos[i].clip)

\* the effects node was called with effect_type 'none'
EffectNone == call.op = "VideoEffects.apply_effect" /\ call.kind = "none"

\* C17: VideoEffects.apply_effect with effect_type 'none' returns the very
\* wrapper it was given, whatever intensity, blur_radius, speed_factor and
\* noise_level are: no new wrapper, no new clip.
C17_NoneEffectReturnsSameWrapper ==
  EffectNone =>
     /\ out.status = "returned"
     /\ out.wrapper = videos[1]
     /\ out.wrapper.wid = 1
     /\ out.wrapper.clip = call.clip
     /\ out.ran = <<>>

\* 'none' with none of the numeric inputs at its default
C17_Witness ==
  /\ EffectNone /\ Returned
  /\ call.params = <<0, 1, 2, 1>>
  /\ out.wrapper = videos[1]

\* convert_to_images was called
ToImages == call.op = "convert_to_images"

\* the count the claim names, floor((end - start) * fps), from the call's
\* arguments: fps the requested rate or the clip's own, start and end clamped
ExpectedFrames ==
  LET whole == call.clip.dur * TicksPerSecond
      rate == IF call.fps = 0 THEN call.clip.fps ELSE call.fps
      start == Max(0, Min(call.params[1], whole))
      end == Max(start, Min(IF call.params[2] = 0 THEN whole ELSE call.params[2],
                            whole))
  IN  ((end - start) * rate) \div TicksPerSecond

ToVideo == call.op = "convert_to_video"

\* C19: convert_to_video on a batch of B >= 1 frames of size W x H at rate fps
\* returns a wrapper whose clip lasts B / fps, runs at fps and has size
\* (W, H); on None or an empty batch it raises ValueError and returns nothing.
C19_ImagesToVideo ==
  ToVideo =>
     LET images == call.params
     IN  IF ~images.none /\ images.B >= 1
         THEN /\ Returned
              /\ Result.dur.num * call.fps = images.B * Result.dur.den
              /\ Result.fps = call.fps
              /\ SizeOf(Result) = <<images.W, images.H>>
         ELSE /\ out.status = "ValueError"
              /\ out.wrapper = VideoWrapper(0, NoneClip)

\* three frames at 2 fps: a clip of a second and a half
C19_Witness ==
  /\ ToVideo /\ Returned
  /\ call.params.B = 3 /\ call.fps = 2
  /\ Result.dur = [num |-> 3, den |-> 2]
  /\ SizeOf(Result) = <<call.params.W, call.params.H>>

\* VideoWrapper(clip) was called
Wrapped == call.op = "VideoWrapper"

\* C20: for any object with duration, fps, size, w and h, the fixture's Mock
\* included, VideoWrapper(clip) is constructed and its duration, fps, size, w
\* and h are exactly the wrapped object's.
C20_WrapsAnyClipLike ==
  Wrapped =>
     /\ Returned
     /\ out.wrapper.clip = call.clip
     /\ out.props = <<call.clip.dur, call.clip.fps, <<call.clip.w, call.clip.h>>,
                     call.clip.w, call.clip.h>>

\* combine_videos was called and returned
Combined == call.op = "combine_videos" /\ Returned

\* the slots that were given a video: IMAGE1 and the optional ones not None
GivenSlots == {k \in 1..Len(call.params) : k = 1 \/ ~call.params[k].none}

\* C21: combine_videos concatenates IMAGE1 and every non-None optional input
\* in slot order; each clip after the first is resized to the first video's
\* resolution unless it has it already, so every concatenated clip has the
\* first video's size; with IMAGE1 alone its clip is used as is, unconcatenated.
C21_CombineInSlotOrderAtFirstSize ==
  Combined =>
     LET first == call.params[1]
         clip == out.combined
     IN  IF GivenSlots = {1}
         THEN /\ clip.kind = "clip" /\ clip.src = 1 /\ clip.fx = <<>>
              /\ out.tensor = first
         ELSE /\ clip.kind = "concat"
              /\ Len(clip.segs) = Cardinality(GivenSlots)
              /\ {clip.segs[k].src : k \in 1..Len(clip.segs)} = GivenSlots
              /\ \A k \in 1..(Len(clip.segs) - 1) :
                    clip.segs[k].src < clip.segs[k + 1].src
              /\ clip.segs[1].fx = <<>>
              /\ \A k \in 1..Len(clip.segs) :
                    LET given == call.params[clip.segs[k].src]
                    IN  /\ SizeOf(clip.segs[k]) = <<first.W, first.H>>
                        /\ clip.segs[k].dur = given.B
                        /\ (clip.segs[k].fx = <<>>)
                              <=> (k = 1 \/ <<given.W, given.H>> = <<first.W, first.H>>)
              /\ <<out.tensor.W, out.tensor.H>> = <<first.W, first.H>>

\* IMAGE1, nothing in IMAGE2, and two more videos of which one has another
\* size: three clips, the second unresized, the third resized
C21_Witness ==
  /\ Combined /\ GivenSlots = {1, 3, 4}
  /\ Len(out.combined.segs) = 3
  /\ out.combined.segs[2].fx = <<>>
  /\ out.combined.segs[3].fx # <<>>

\* a crossfade over two clips or more
CrossfadeMany == Composites({"crossfade"}) /\ NumVideos >= 2

\* C22: in a crossfade over n >= 2 clips the first clip gets a fade-out of
\* length d and nothing else, the last a fade-in of length d and nothing else,
\* every interior clip a fade-in and a fade-out of length d; the faded clips
\* are concatenated with padding -d, so that (d being positive) each clip
\* starts before the one in front of it has ended.
C22_CrossfadeFades ==
  CrossfadeMany =>
     LET d == call.duration
     IN  /\ Returned /\ Result.kind = "concat"
         /\ Len(Result.segs) = NumVideos
         /\ Result.pad = -d
         /\ \A k \in 1..NumVideos :
               /\ Result.segs[k].src = k
               /\ FadesOf(Result.segs[k].fx) =
                     IF k = 1 THEN <<Fx("crossfadeout", d)>>
                     ELSE IF k = NumVideos THEN <<Fx("crossfadein", d)>>
                     ELSE <<Fx("crossfadein", d), Fx("crossfadeout", d)>>
         /\ d > 0 =>
               \A k \in 1..(NumVideos - 1) :
                  StartTime(Result, k + 1) < StartTime(Result, k) + Result.segs[k].dur

\* three clips crossfaded over 1 s: the second starts 1 s before the first ends
C22_Witness ==
  /\ CrossfadeMany /\ NumVideos = 3 /\ call.duration = 1 /\ Returned
  /\ FadesOf(Result.segs[2].fx) = <<Fx("crossfadein", 1), Fx("crossfadeout", 1)>>
  /\ StartTime(Result, 2) = Result.segs[1].dur - 1

\* a fade through black or white over one clip or more
ColourFade == Composites({"fade_black", "fade_white"}) /\ NumVideos >= 1

FadeColour == IF call.kind = "fade_black" THEN "black" ELSE "white"

\* the fades to or from a colour among the effects of a clip, in order
RECURSIVE ColourFadesOf(_)
ColourFadesOf(fx) ==
  IF fx = <<>> THEN <<>>
  ELSE (IF Head(fx).op \in {"fadein_black", "fadeout_black", "fadein_white",
                            "fadeout_white"}
        THEN <<Head(fx)>> ELSE <<>>)
       \o ColourFadesOf(Tail(fx))

\* C23: fade_black and fade_white over n >= 1 clips give every clip but the
\* last a fade-out to the kind's colour of length d and every clip but the
\* first a fade-in from it of length d, the last no fade-out and the first no
\* fade-in; the clips follow each other without overlap and the timeline lasts
\* the sum of the input durations.
C23_ColourFades ==
  ColourFade =>
     LET d == call.duration
     IN  /\ Returned
         /\ Result.dur = SumDur(ClipsOf(videos))
         /\ IF Result.kind = "concat"
            THEN /\ Len(Result.segs) = NumVideos
                 /\ Result.pad = 0
                 /\ \A k \in 1..NumVideos :
                       /\ Result.segs[k].src = k
                       /\ Result.segs[k].dur = videos[k].clip.dur
                       /\ StartTime(Result, k) = SumDur(SubSeq(ClipsOf(videos), 1, k - 1))
                       /\ ColourFadesOf(Result.segs[k].fx) =
                            (IF k < NumVideos
                             THEN <<Fx("fadeout_" \o FadeColour, d)>> ELSE <<>>)
                            \o (IF k > 1
                                THEN <<Fx("fadein_" \o FadeColour, d)>> ELSE <<>>)
            ELSE NumVideos = 1 /\ Result = videos[1].clip

\* three clips faded through white: the middle one fades out and in
C23_Witness ==
  /\ ColourFade /\ call.kind = "fade_white" /\ NumVideos = 3 /\ Returned
  /\ call.duration = 2
  /\ ColourFadesOf(Result.segs[2].fx) =
        <<Fx("fadeout_white", 2), Fx("fadein_white", 2)>>
  /\ ColourFadesOf(Result.segs[3].fx) = <<Fx("fadein_white", 2)>>

\* a slide over two clips or more, each longer than the transition
SlideMany ==
  /\ Composites({"slide_left", "slide_right"}) /\ NumVideos >= 2
  /\ AllLongerThan(1)

\* the parts [t0, t1] of two clips cut from the same input share no time
Disjoint(a, b) == a.t1 <= b.t0 \/ b.t1 <= a.t0

\* C24 as stated: every junction of a slide gives one transition segment, put
\* between the remainders of its two clips, and the part of an input clip
\* used in a transition segment shares no time with the part of that clip
\* emitted as its remainder, for first, interior and last clips alike.
C24_SlideRemaindersDisjoint ==
  SlideMany =>
     /\ Returned /\ Result.kind = "concat"
     /\ Cardinality({k \in 1..Len(Result.segs) : Result.segs[k].kind = "composite"})
           = NumVideos - 1
     /\ \A k, r \in 1..Len(Result.segs) :
           (Result.segs[k].kind = "composite" /\ Result.segs[r].kind = "clip") =>
              \A j \in 1..Len(Result.segs[k].segs) :
                 Result.segs[k].segs[j].src = Result.segs[r].src =>
                    Disjoint(Result.segs[k].segs[j], Result.segs[r])

\* a slide over two clips or more with a positive duration shorter than
\* every clip
SlidePositive == SlideMany /\ call.duration > 0

\* where the library puts a member of a transition segment at time t, as
\* <<x * duration, y>>
PlacedAt(member, t) ==
  LET pos == member.fx[Len(member.fx)]
  IN  PositionAt(pos.op, pos.arg, t, call.duration)

\* C25 as stated: in a slide segment of length d over frames of width w the
\* outgoing clip is at x = 0 when t = 0 and at -w (slide_left) or +w
\* (slide_right) when t = d, the incoming clip at +w (slide_left) or -w
\* (slide_right) when t = 0 and at 0 when t = d, both move linearly in t with
\* y = 0, and at every t the two are exactly w apart.
C25_SlideOffsets ==
  SlidePositive =>
     /\ Returned
     /\ \A k \in 1..Len(Result.segs) :
           Result.segs[k].kind = "composite" =>
              LET w == Result.segs[k].w
                  d == call.duration
                  sign == IF call.kind = "slide_left" THEN -1 ELSE 1
                  outgoing == Result.segs[k].segs[1]
                  incoming == Result.segs[k].segs[2]
              IN  \A t \in 0..d :
                     /\ PlacedAt(outgoing, t) = <<sign * w * t, 0>>
                     /\ PlacedAt(incoming, t) = <<sign * w * t - sign * w * d, 0>>
                     /\ PlacedAt(incoming, t)[1] - PlacedAt(outgoing, t)[1]
                           = -sign * w * d

\* the effects node was called
EffectCalled == call.op = "VideoEffects.apply_effect"

\* C26 as stated: for every effect_type the node offers, the function
\* EFFECT_FUNCTIONS maps it to accepts every keyword argument the node builds
\* for it, so the call never ends in a TypeError raised before the effect
\* function has run.
C26_KeywordsAccepted ==
  EffectCalled =>
     /\ call.kind \in EffectKinds
     /\ ~(out.status = "TypeError" /\ out.ran = <<>>)

\* a slide or zoom over two clips or more, with a positive duration shorter
\* than every clip
CutsMany ==
  /\ Composites({"slide_left", "slide_right", "zoom_in", "zoom_out"})
  /\ NumVideos >= 2 /\ call.duration > 0 /\ AllLongerThan(1)

\* C27: when the transition duration d is positive and less than every clip's
\* duration, every sub-clip a slide or zoom asks for has
\* 0 <= start <= end <= the clip's duration, for every n >= 2.
C27_SubclipsInRange ==
  CutsMany =>
     /\ Returned
     /\ \A c \in PartsOf(Result) : \A j \in 1..Len(c.fx) :
           c.fx[j].op = "subclip" =>
              /\ 0 <= c.fx[j].arg
              /\ c.fx[j].arg <= c.fx[j + 1].arg
              /\ c.fx[j + 1].arg <= videos[c.src].clip.dur

\* a zoom over three clips: the tail of a clip is cut from a positive start to
\* the clip's end
C27_Witness ==
  /\ CutsMany /\ call.kind = "zoom_in" /\ NumVideos = 3 /\ Returned
  /\ \E c \in PartsOf(Result) : \E j \in 1..Len(c.fx) :
        /\ c.fx[j].op = "subclip" /\ c.fx[j].arg > 0
        /\ c.fx[j + 1].arg = videos[c.src].clip.dur

\* the clip's duration, the clamped start and the clamped end of the window
\* of a convert_to_images call, in ticks
WholeClip == call.clip.dur * TicksPerSecond

ClampedStart == Max(0, Min(call.params[1], WholeClip))

ClampedEnd ==
  Max(ClampedStart,
      Min(IF call.params[2] = 0 THEN WholeClip ELSE call.params[2], WholeClip))

\* the rate frames are taken at
TakenRate == IF call.fps = 0 THEN call.clip.fps ELSE call.fps

\* C28: every time t at which convert_to_images asks the clip for a frame has
\* 0 <= start <= t < end <= clip.duration, start and end being the clamped
\* bounds, whatever start_time, end_time and fps are; and a call that asks for
\* no frame (start_time at or past the clip's end, say) raises ValueError
\* rather than return an empty batch.
C28_FrameTimesInWindow ==
  ToImages =>
     /\ 0 <= ClampedStart /\ ClampedStart <= ClampedEnd /\ ClampedEnd <= WholeClip
     /\ \A k \in 1..Len(out.frames) :
           /\ ClampedStart * TakenRate <= out.frames[k]
           /\ out.frames[k] < ClampedEnd * TakenRate
     /\ Returned <=> out.frames # <<>>
     /\ ~Returned => out.status = "ValueError"
     /\ call.params[1] >= WholeClip => out.status = "ValueError"

\* a window that begins inside the clip and is asked to end past its end: the
\* frames run from the start up to the clip's end
C28_Witness ==
  /\ ToImages /\ Returned
  /\ call.params[1] > 0 /\ call.params[2] > WholeClip
  /\ out.frames[1] = ClampedStart * TakenRate
  /\ Len(out.frames) >= 2

\* C29: calculate_file_hash terminates for every existing file and every
\* hash_every_n >= 1; each round of the sampling loop (files of 1 MiB or more,
\* hash_every_n other than 1) moves the read offset strictly forward, until it
\* reaches the file size or a read returns nothing; for a path that does not
\* exist "0" is returned and nothing is opened.
C29_HashTerminates ==
  /\ <>(hash.pc = "done")
  /\ [][(hash.pc = "sample" /\ hash'.pc = "sample") =>
          /\ hash.file_size >= SampleThreshold /\ hash.hash_every_n # 1
          /\ hash'.bytes_read > hash.bytes_read
          /\ hash'.pos > hash.pos]_vars
  /\ [][(hash.pc = "sample" /\ hash'.pc # "sample") =>
          (hash.bytes_read >= hash.file_size \/ ReadLength(hash) = 0)]_vars
  /\ []((hash.pc = "done" /\ ~hash.exists) => (hash.result = "0" /\ ~hash.opened))

\* a sampled file hashed to the end: several chunks read, the offset past the
\* file's size
C29_Witness ==
  /\ hash.pc = "done" /\ hash.exists /\ hash.opened
  /\ hash.file_size >= SampleThreshold /\ hash.hash_every_n = 2
  /\ hash.chunks >= 2 /\ hash.bytes_read >= hash.file_size

\* a frame of a clip built by convert_to_video was requested
Framed == call.op = "make_frame"

\* C30: the frame function of the clip convert_to_video built from B >= 1
\* frames selects an index within 0..B-1 at every request time, those below 0
\* and those at or past the duration included, and at the time k / fps of the
\* clip's frame k (0 <= k < B) it selects floor((k / fps) * fps) = k: the
\* frames show in batch order, none skipped.
C30_FrameIndexInBatchOrder ==
  Framed =>
     LET B == call.params.images.B
         k == call.params.k
     IN  /\ out.index \in 0..B - 1
         /\ (~call.params.neg /\ k < B) => out.index = k

====
